---- MODULE Spec2Model ----
(***************************************************************************)
(* Products API (Express): the in-memory product store of app.js, its      *)
(* request handlers and the middleware chain in front of them.             *)
(*                                                                         *)
(* A handler wrapped in asyncHandler runs in two atomic segments: the code *)
(* before its `await new Promise(setTimeout 10)` and the code after it.    *)
(* Node runs each segment to completion, so every segment is one action;   *)
(* between the two segments of one request any segment of another request  *)
(* may run.                                                                *)
(*                                                                         *)
(* Strings that the code trims, lower-cases or parses are tuples of        *)
(* one-character strings.  Prices are in cents.  An optional value (a JSON *)
(* field, a query parameter, a header) is <<>> when absent and <<v>> when  *)
(* present.                                                                *)
(***************************************************************************)
EXTENDS Integers, Sequences, FiniteSets, TLC

\* ------------------------------------------------------------------ bounds
MaxRequests == 2
MaxStoreRequests == 3
MaxInFlight == 2

\* --------------------------------------------------------- string helpers
\* A string literal holds the code points U+0000..U+00FF, so the strings of
\* the model are over Latin-1.  The code points there with a lower-case form,
\* in code point order (A..Z, then the accented capitals), and those forms
UpperChars == <<"A", "B", "C", "D", "E", "F", "G", "H", "I", "J", "K", "L", "M",
                 "N", "O", "P", "Q", "R", "S", "T", "U", "V", "W", "X", "Y", "Z",
                 "À", "Á", "Â", "Ã", "Ä", "Å", "Æ", "Ç", "È", "É", "Ê", "Ë", "Ì",
                 "Í", "Î", "Ï", "Ð", "Ñ", "Ò", "Ó", "Ô", "Õ", "Ö", "Ø", "Ù", "Ú",
                 "Û", "Ü", "Ý", "Þ">>
LowerChars == <<"a", "b", "c", "d", "e", "f", "g", "h", "i", "j", "k", "l", "m",
                 "n", "o", "p", "q", "r", "s", "t", "u", "v", "w", "x", "y", "z",
                 "à", "á", "â", "ã", "ä", "å", "æ", "ç", "è", "é", "ê", "ë", "ì",
                 "í", "î", "ï", "ð", "ñ", "ò", "ó", "ô", "õ", "ö", "ø", "ù", "ú",
                 "û", "ü", "ý", "þ">>
Digits == <<"0", "1", "2", "3", "4", "5", "6", "7", "8", "9">>
HexLetters == <<"a", "b", "c", "d", "e", "f">>

\* WhiteSpace and LineTerminator of ECMAScript up to U+00FF: TAB, VT, FF, SP,
\* NBSP, LF, CR
WhiteSpace == {"\t", "", "\f", " ", " ", "\n", "\r"}

\* String.prototype.toLowerCase of a string of one code point
LowerChar(c) ==
    IF \E i \in 1..Len(UpperChars) : UpperChars[i] = c
    THEN LowerChars[CHOOSE i \in 1..Len(UpperChars) : UpperChars[i] = c]
    ELSE c

\* String.prototype.toLowerCase
ToLowerCase(s) == [i \in 1..Len(s) |-> LowerChar(s[i])]

\* String.prototype.trimStart
RECURSIVE TrimStart(_)
TrimStart(s) ==
    IF s # <<>> /\ Head(s) \in WhiteSpace THEN TrimStart(Tail(s)) ELSE s

\* String.prototype.trimEnd
RECURSIVE TrimEnd(_)
TrimEnd(s) ==
    IF s # <<>> /\ s[Len(s)] \in WhiteSpace
    THEN TrimEnd(SubSeq(s, 1, Len(s) - 1))
    ELSE s

\* String.prototype.trim
Trim(s) == TrimEnd(TrimStart(s))

IsDigit(c) == \E i \in 1..10 : Digits[i] = c
DigitValue(c) == (CHOOSE i \in 1..10 : Digits[i] = c) - 1

RECURSIVE DigitsPrefix(_)
DigitsPrefix(s) ==
    IF s # <<>> /\ IsDigit(Head(s)) THEN <<Head(s)>> \o DigitsPrefix(Tail(s)) ELSE <<>>

RECURSIVE DigitsToNat(_)
DigitsToNat(d) ==
    IF d = <<>> THEN 0 ELSE 10 * DigitsToNat(SubSeq(d, 1, Len(d) - 1)) + DigitValue(d[Len(d)])

\* the digits of radix 16: 0..9, a..f and A..F
IsHexDigit(c) == IsDigit(c) \/ \E i \in 1..6 : HexLetters[i] = LowerChar(c)
HexDigitValue(c) ==
    IF IsDigit(c) THEN DigitValue(c)
    ELSE 9 + (CHOOSE i \in 1..6 : HexLetters[i] = LowerChar(c))

RECURSIVE HexDigitsPrefix(_)
HexDigitsPrefix(s) ==
    IF s # <<>> /\ IsHexDigit(Head(s))
    THEN <<Head(s)>> \o HexDigitsPrefix(Tail(s))
    ELSE <<>>

RECURSIVE HexDigitsToNat(_)
HexDigitsToNat(d) ==
    IF d = <<>> THEN 0
    ELSE 16 * HexDigitsToNat(SubSeq(d, 1, Len(d) - 1)) + HexDigitValue(d[Len(d)])

\* parseInt(string) without a radix: leading white space skipped, optional
\* sign, then either "0x" or "0X" and the longest run of hexadecimal digits,
\* or the longest run of decimal digits; <<>> stands for NaN, <<n>> for the
\* number n.
ParseInt(str) ==
    LET s == TrimStart(str)
        neg == s # <<>> /\ Head(s) = "-"
        rest == IF s # <<>> /\ Head(s) \in {"-", "+"} THEN Tail(s) ELSE s
        hex == Len(rest) >= 2 /\ rest[1] = "0" /\ rest[2] \in {"x", "X"}
        d == IF hex THEN HexDigitsPrefix(SubSeq(rest, 3, Len(rest))) ELSE DigitsPrefix(rest)
        n == IF hex THEN HexDigitsToNat(d) ELSE DigitsToNat(d)
    IN  IF d = <<>> THEN <<>>
        ELSE IF neg THEN <<0 - n>> ELSE <<n>>

\* ------------------------------------------------------------ the store
SeedProducts == <<
    [id |-> 1,
     name |-> <<"L", "a", "p", "t", "o", "p", " ", "P", "r", "o">>,
     description |-> <<"H", "i", "g", "h", "-", "p", "e", "r", "f", "o", "r", "m",
                       "a", "n", "c", "e", " ", "l", "a", "p", "t", "o", "p">>,
     price |-> 129999,
     category |-> <<"E", "l", "e", "c", "t", "r", "o", "n", "i", "c", "s">>,
     inStock |-> TRUE],
    [id |-> 2,
     name |-> <<"W", "i", "r", "e", "l", "e", "s", "s", " ", "M", "o", "u", "s", "e">>,
     description |-> <<"E", "r", "g", "o", "n", "o", "m", "i", "c", " ", "m", "o",
                       "u", "s", "e">>,
     price |-> 2450,
     category |-> <<"A", "c", "c", "e", "s", "s", "o", "r", "i", "e", "s">>,
     inStock |-> TRUE],
    [id |-> 3,
     name |-> <<"C", "o", "f", "f", "e", "e", " ", "M", "a", "k", "e", "r">>,
     description |-> <<"1", "2", "-", "c", "u", "p", " ", "a", "u", "t", "o", "m",
                       "a", "t", "i", "c", " ", "b", "r", "e", "w", "e", "r">>,
     price |-> 8500,
     category |-> <<"H", "o", "m", "e", " ", "G", "o", "o", "d", "s">>,
     inStock |-> FALSE] >>

SeedNextId == 4

VARIABLES
    products,    \* app.js `products`: the list of product records
    nextId,      \* app.js `nextId`
    inflight,    \* slot -> <<>> or <<handler suspended at its await>>
    last,        \* the request answered most recently and its response
    nreq,        \* requests received so far
    assigned,    \* history: every id given to a product so far
    deletedOk    \* history: ids whose DELETE was answered 200

vars == <<products, nextId, inflight, last, nreq, assigned, deletedOk>>

Slots == 1..MaxInFlight

\* Array.prototype.find(p => p.id === id): the first match, <<>> when none
FindById(list, id) ==
    IF \E i \in 1..Len(list) : list[i].id = id
    THEN <<list[CHOOSE i \in 1..Len(list) :
                  /\ list[i].id = id
                  /\ \A j \in 1..(i - 1) : list[j].id # id]>>
    ELSE <<>>

\* Array.prototype.findIndex(p => p.id === id): 0-based, -1 when none
FindIndexById(list, id) ==
    IF \E i \in 1..Len(list) : list[i].id = id
    THEN (CHOOSE i \in 1..Len(list) :
            /\ list[i].id = id
            /\ \A j \in 1..(i - 1) : list[j].id # id) - 1
    ELSE -1

\* Array.prototype.splice(index, 1) on the list: the list that is left
SpliceOut(list, index) ==
    IF index < Len(list)
    THEN SubSeq(list, 1, index) \o SubSeq(list, index + 2, Len(list))
    ELSE list

\* ... and the removed elements
Spliced(list, index) ==
    IF index < Len(list) THEN <<list[index + 1]>> ELSE <<>>

\* ------------------------------------------------------- requests, responses
\* express.json() body of a product request
Body(name, description, price, category, inStock) ==
    [name |-> name, description |-> description, price |-> price,
     category |-> category, inStock |-> inStock]

NoBody == Body(<<>>, <<>>, <<>>, <<>>, <<>>)

\* the request bodies express.json() refuses, named by the type of the error
\* it raises: a body of Content-Type application/json that is not JSON, such
\* as the text "{"; a body over the parser's size limit; a body in a
\* character set the parser does not decode
MalformedBody == [refused |-> "entity.parse.failed"]
OversizedBody == [refused |-> "entity.too.large"]
UnsupportedBody == [refused |-> "charset.unsupported"]
RefusedBodies == {MalformedBody, OversizedBody, UnsupportedBody}

\* req.query
Query(page, limit, category, inStock, minPrice, maxPrice, sort, q) ==
    [page |-> page, limit |-> limit, category |-> category, inStock |-> inStock,
     minPrice |-> minPrice, maxPrice |-> maxPrice, sort |-> sort, q |-> q]

NoQuery == Query(<<>>, <<>>, <<>>, <<>>, <<>>, <<>>, <<>>, <<>>)

\* one HTTP request: the route it matches, its x-api-key header, its :id
\* parameter, its JSON body and its query string
Request(kind, key, id, body, query) ==
    [kind |-> kind, key |-> key, id |-> id, body |-> body, query |-> query]

NoRequest == Request("none", <<>>, <<>>, NoBody, NoQuery)

\* pagination metadata of a response without any
NoMeta ==
    [currentPage |-> 0, totalPages |-> 0, totalItems |-> -1, itemsPerPage |-> 0,
     hasNextPage |-> FALSE, hasPrevPage |-> FALSE, nextPage |-> <<>>, prevPage |-> <<>>]

\* statistics member of a response without any
NoStatistics ==
    [totalProducts |-> -1, totalValue |-> 0, inStockCount |-> 0, outOfStockCount |-> 0]

\* a response: HTTP status, the `success` member of the JSON body ("true",
\* "false" or "absent"), the product records of the body (data, or the body
\* itself for GET :id), its pagination member and its statistics member
Response(status, success, data, pagination) ==
    [status |-> status, success |-> success, data |-> data, pagination |-> pagination,
     statistics |-> NoStatistics]

NoResponse == Response(0, "absent", <<>>, NoMeta)

\* ----------------------------------------------------------- middleware
\* the allow-list of middleware/auth.js, as app.listen prints it
ValidApiKeys == {"your-secret-api-key-123", "another-valid-key-456"}

\* authenticateApiKey: 0 to go on, else the status of the error it raises
AuthenticateApiKey(req) ==
    IF req.key = <<>> THEN 401
    ELSE IF req.key[1] \notin ValidApiKeys THEN 403
    ELSE 0

MaxNameLength == 100
MaxDescriptionLength == 500

\* field rules of middleware/validation.js; each is TRUE when the field passes
NameOk(v) == Trim(v) # <<>> /\ Len(v) <= MaxNameLength
DescriptionOk(v) == Len(v) <= MaxDescriptionLength
PriceOk(v) == v > 0
CategoryOk(v) == Trim(v) # <<>>

\* validateProductCreation: every field present and well-formed, else 422
ValidateProductCreation(req) ==
    LET b == req.body IN
    IF /\ b.name # <<>> /\ NameOk(b.name[1])
       /\ b.description # <<>> /\ DescriptionOk(b.description[1])
       /\ b.price # <<>> /\ PriceOk(b.price[1])
       /\ b.category # <<>> /\ CategoryOk(b.category[1])
       /\ b.inStock # <<>>
    THEN 0 ELSE 422

\* validateProductUpdate: each field checked only when present, else 422
ValidateProductUpdate(req) ==
    LET b == req.body IN
    IF /\ b.name # <<>> => NameOk(b.name[1])
       /\ b.description # <<>> => DescriptionOk(b.description[1])
       /\ b.price # <<>> => PriceOk(b.price[1])
       /\ b.category # <<>> => CategoryOk(b.category[1])
    THEN 0 ELSE 422

\* app.use(express.json()): a body the parser refuses ends the chain with
\* an error passed to next(), before any route is looked at; any other body
\* goes on.  The value is the status property the parser puts on its error
\* (0 when it goes on).  It is not the status of the answer: that is chosen
\* by the error handler, see ForeignErrorStatuses.
ExpressJson(req) ==
    CASE req.body = MalformedBody -> 400
      [] req.body = OversizedBody -> 413
      [] req.body = UnsupportedBody -> 415
      [] OTHER -> 0

\* app.use(logger): logs the request and goes on
Logger(req) == 0

RunMiddleware(name, req) ==
    CASE name = "express.json" -> ExpressJson(req)
      [] name = "logger" -> Logger(req)
      [] name = "authenticateApiKey" -> AuthenticateApiKey(req)
      [] name = "validateProductCreation" -> ValidateProductCreation(req)
      [] name = "validateProductUpdate" -> ValidateProductUpdate(req)

\* the middleware registered with app.use in front of every route
GlobalChain == <<"express.json", "logger">>

\* the middleware in front of each route's handler, in registration order
ListChain == <<"authenticateApiKey">>
SearchChain == <<"authenticateApiKey">>
StatsChain == <<"authenticateApiKey">>
GetChain == <<"authenticateApiKey">>
PostChain == <<"authenticateApiKey", "validateProductCreation">>
PutChain == <<"authenticateApiKey", "validateProductUpdate">>
DeleteChain == <<"authenticateApiKey">>

RouteChain(kind) ==
    CASE kind = "list" -> ListChain
      [] kind = "search" -> SearchChain
      [] kind = "stats" -> StatsChain
      [] kind = "get" -> GetChain
      [] kind = "post" -> PostChain
      [] kind = "put" -> PutChain
      [] kind = "delete" -> DeleteChain
      [] OTHER -> <<>>

\* everything a request of this kind passes before its handler
Chain(kind) == GlobalChain \o RouteChain(kind)

\* Express runs the chain in order; the first middleware that passes an
\* error to next() ends it.  0 when the handler is reached.
RECURSIVE RunChain(_, _)
RunChain(chain, req) ==
    IF chain = <<>> THEN 0
    ELSE IF RunMiddleware(Head(chain), req) # 0 THEN RunMiddleware(Head(chain), req)
    ELSE RunChain(Tail(chain), req)

\* errorHandler: the failure envelope with the status of the error; an
\* error without a status code (a TypeError) is answered 500
ErrorResponse(status) == Response(status, "false", <<>>, NoMeta)

\* the statuses of utils/errors.js and the two statuses of success
FailureStatuses == {400, 401, 403, 404, 409, 422, 500}
SuccessStatuses == {200, 201}

\* errorHandler on an error that is none of the kinds of utils/errors.js but
\* carries a status of its own, as the errors of express.json() do.  The
\* handler answers with one of the fixed statuses; which one it gives such
\* an error is not settled by app.js: the error's own status when that is
\* one of the fixed statuses, or 500 as for any unexpected fault.
ForeignErrorStatuses(status) ==
    {st \in FailureStatuses : st = status} \cup {500}

\* ------------------------------------------------------ steps of a request
FreeSlot == CHOOSE s \in Slots : inflight[s] = <<>> /\ \A t \in 1..(s - 1) : inflight[t] # <<>>

\* the :id of the request names a product whose DELETE was already answered 200
IsLate(req) == ParseInt(req.id) # <<>> /\ ParseInt(req.id)[1] \in deletedOk

\* the request is answered in the segment that received it
Answer(req, resp) ==
    /\ last' = [req |-> req, resp |-> resp, late |-> IsLate(req)]
    /\ nreq' = nreq + 1
    /\ UNCHANGED <<products, nextId, inflight, assigned, deletedOk>>

\* the handler reaches its await: it keeps its locals (productIndex, or the
\* response it has already computed) and yields
Suspend(req, index, resp) ==
    /\ \E s \in Slots : inflight[s] = <<>>
    /\ inflight' = [inflight EXCEPT ![FreeSlot] =
           <<[req |-> req, productIndex |-> index, resp |-> resp, late |-> IsLate(req)]>>]
    /\ nreq' = nreq + 1
    /\ UNCHANGED <<products, nextId, last, assigned, deletedOk>>

\* the handler resumes after its await and answers
Resume(s, resp) ==
    /\ inflight' = [inflight EXCEPT ![s] = <<>>]
    /\ last' = [req |-> inflight[s][1].req, resp |-> resp, late |-> inflight[s][1].late]
    /\ UNCHANGED nreq

Suspended(s, kind) == inflight[s] # <<>> /\ inflight[s][1].req.kind = kind

\* ------------------------------------------------ POST /api/products
\* products.find(p => p.name.toLowerCase() === name.trim().toLowerCase())
CreateDuplicate(list, name) ==
    \E i \in 1..Len(list) : ToLowerCase(list[i].name) = ToLowerCase(Trim(name))

\* parseFloat of a JSON number is that number
ParseFloatNumber(v) == v

\* Boolean of a JSON boolean is that boolean; Boolean(undefined), of a body
\* without inStock, is false
BooleanOf(v) == v

\* the id of a new product: nextId++ yields the value before the increment
NewProductIdFromLength(list, nid) == Len(list) + 1
NewProductId(list, nid) == nid

NewProduct(id, body) ==
    [id |-> id,
     name |-> Trim(body.name[1]),
     description |-> Trim(body.description[1]),
     price |-> ParseFloatNumber(body.price[1]),
     category |-> Trim(body.category[1]),
     inStock |-> IF body.inStock = <<>> THEN FALSE ELSE BooleanOf(body.inStock[1])]

\* the handler up to its await: nextId++ sits after the duplicate check and
\* after the await, so a create answered 409 takes no id
PostBeginIdBeforeCheck(key, body) ==
    LET req == Request("post", key, <<>>, body, NoQuery) IN
    /\ ExpressJson(req) = 0
    /\ IF RunChain(Chain("post"), req) # 0
       THEN Answer(req, ErrorResponse(RunChain(Chain("post"), req)))
       ELSE IF CreateDuplicate(products, body.name[1])
       THEN /\ last' = [req |-> req, resp |-> ErrorResponse(409), late |-> IsLate(req)]
            /\ nreq' = nreq + 1
            /\ nextId' = nextId + 1
            /\ UNCHANGED <<products, inflight, assigned, deletedOk>>
       ELSE Suspend(req, -1, NoResponse)

PostBegin(key, body) ==
    LET req == Request("post", key, <<>>, body, NoQuery) IN
    /\ ExpressJson(req) = 0
    /\ IF RunChain(Chain("post"), req) # 0
       THEN Answer(req, ErrorResponse(RunChain(Chain("post"), req)))
       ELSE IF CreateDuplicate(products, body.name[1])
       THEN Answer(req, ErrorResponse(409))
       ELSE Suspend(req, -1, NoResponse)

PostEnd(s) ==
    /\ Suspended(s, "post")
    /\ LET body == inflight[s][1].req.body
           newProduct == NewProduct(NewProductId(products, nextId), body)
       IN /\ nextId' = nextId + 1
          /\ products' = Append(products, newProduct)
          /\ assigned' = assigned \cup {newProduct.id}
          /\ Resume(s, Response(201, "absent", <<newProduct>>, NoMeta))
          /\ UNCHANGED deletedOk

\* ------------------------------------------------ PUT /api/products/:id
\* products.find(p => p.id !== id &&
\*                    p.name.toLowerCase() === name.trim().toLowerCase())
UpdateDuplicate(list, id, name) ==
    \E i \in 1..Len(list) :
        /\ list[i].id # id
        /\ ToLowerCase(list[i].name) = ToLowerCase(Trim(name))

\* the record replaced by the fields of the body, which carries no id
WriteFieldsDroppingId(p, body) ==
    [id |-> 0,
     name |-> IF body.name # <<>> THEN body.name[1] ELSE p.name,
     description |-> IF body.description # <<>> THEN body.description[1] ELSE p.description,
     price |-> IF body.price # <<>> THEN body.price[1] ELSE p.price,
     category |-> IF body.category # <<>> THEN body.category[1] ELSE p.category,
     inStock |-> IF body.inStock # <<>> THEN body.inStock[1] ELSE p.inStock]

\* the five `if (field !== undefined) products[productIndex].field = ...`
WriteFields(p, body) ==
    [p EXCEPT
       !.name = IF body.name # <<>> THEN body.name[1] ELSE @,
       !.description = IF body.description # <<>> THEN body.description[1] ELSE @,
       !.price = IF body.price # <<>> THEN ParseFloatNumber(body.price[1]) ELSE @,
       !.category = IF body.category # <<>> THEN body.category[1] ELSE @,
       !.inStock = IF body.inStock # <<>> THEN BooleanOf(body.inStock[1]) ELSE @]

\* A list or search handler suspended at its await holds references to the
\* product objects of its page; a write to such an object shows in the
\* response it sends later.  newObject replaces oldObject in those pages.
WriteThrough(flight, oldObject, newObject) ==
    [s \in Slots |->
        IF flight[s] # <<>> /\ flight[s][1].req.kind \in {"list", "search"}
        THEN <<[flight[s][1] EXCEPT !.resp.data =
                  [i \in 1..Len(@) |-> IF @[i] = oldObject THEN newObject ELSE @[i]]]>>
        ELSE flight[s]]

PutBegin(key, id, body) ==
    LET req == Request("put", key, id, body, NoQuery)
        n == ParseInt(id)
    IN
    /\ ExpressJson(req) = 0
    /\ IF RunChain(Chain("put"), req) # 0
       THEN Answer(req, ErrorResponse(RunChain(Chain("put"), req)))
       ELSE IF n = <<>>
       THEN Answer(req, ErrorResponse(400))
       ELSE IF FindIndexById(products, n[1]) = -1
       THEN Answer(req, ErrorResponse(404))
       ELSE IF body.name # <<>> /\ body.name[1] # <<>>
               /\ UpdateDuplicate(products, n[1], body.name[1])
       THEN Answer(req, ErrorResponse(409))
       ELSE Suspend(req, FindIndexById(products, n[1]), NoResponse)

\* the handler after its await.  Its rejection reaches the error boundary
\* through asyncHandler; without it the request would get no answer
PutEndRejectionUnhandled(s) ==
    /\ Suspended(s, "put")
    /\ LET body == inflight[s][1].req.body
           productIndex == inflight[s][1].productIndex
           late == inflight[s][1].late
           req == inflight[s][1].req
       IN IF productIndex < Len(products)
          THEN LET old == products[productIndex + 1]
                   new == WriteFields(old, body)
               IN /\ products' = [products EXCEPT ![productIndex + 1] = new]
                  /\ inflight' = [WriteThrough(inflight, old, new) EXCEPT ![s] = <<>>]
                  /\ last' = [req |-> req, late |-> late,
                              resp |-> Response(200, "absent", <<new>>, NoMeta)]
          ELSE /\ products' = products
               /\ inflight' = [inflight EXCEPT ![s] = <<>>]
               /\ last' = IF body = NoBody
                          THEN [req |-> req, late |-> late,
                                resp |-> Response(200, "absent", <<>>, NoMeta)]
                          ELSE last
    /\ UNCHANGED <<nextId, nreq, assigned, deletedOk>>

PutEnd(s) ==
    /\ Suspended(s, "put")
    /\ LET body == inflight[s][1].req.body
           productIndex == inflight[s][1].productIndex
           late == inflight[s][1].late
           req == inflight[s][1].req
       IN IF productIndex < Len(products)
          THEN LET old == products[productIndex + 1]
                   new == WriteFields(old, body)
               IN /\ products' = [products EXCEPT ![productIndex + 1] = new]
                  /\ inflight' = [WriteThrough(inflight, old, new) EXCEPT ![s] = <<>>]
                  /\ last' = [req |-> req, late |-> late,
                              resp |-> Response(200, "absent", <<new>>, NoMeta)]
          ELSE \* products[productIndex] is undefined: the first field write
               \* throws a TypeError; with no field to write, data is undefined
               /\ products' = products
               /\ inflight' = [inflight EXCEPT ![s] = <<>>]
               /\ last' = [req |-> req, late |-> late,
                           resp |-> IF body = NoBody
                                    THEN Response(200, "absent", <<>>, NoMeta)
                                    ELSE ErrorResponse(500)]
    /\ UNCHANGED <<nextId, nreq, assigned, deletedOk>>

\* ------------------------------------------------ DELETE /api/products/:id
DeleteBegin(key, id) ==
    LET req == Request("delete", key, id, NoBody, NoQuery)
        n == ParseInt(id)
    IN
    /\ IF RunChain(Chain("delete"), req) # 0
       THEN Answer(req, ErrorResponse(RunChain(Chain("delete"), req)))
       ELSE IF n = <<>>
       THEN Answer(req, ErrorResponse(400))
       ELSE IF FindIndexById(products, n[1]) = -1
       THEN Answer(req, ErrorResponse(404))
       ELSE Suspend(req, FindIndexById(products, n[1]), NoResponse)

DeleteEnd(s) ==
    /\ Suspended(s, "delete")
    /\ LET productIndex == inflight[s][1].productIndex IN
       /\ products' = SpliceOut(products, productIndex)
       /\ Resume(s, Response(200, "absent", Spliced(products, productIndex), NoMeta))
    /\ deletedOk' = deletedOk \cup {ParseInt(inflight[s][1].req.id)[1]}
    /\ UNCHANGED <<nextId, assigned>>

\* ------------------------------------------------ GET /api/products/:id
GetBegin(key, id) ==
    LET req == Request("get", key, id, NoBody, NoQuery) IN
    /\ IF RunChain(Chain("get"), req) # 0
       THEN Answer(req, ErrorResponse(RunChain(Chain("get"), req)))
       ELSE IF ParseInt(id) = <<>>
       THEN Answer(req, ErrorResponse(400))
       ELSE Suspend(req, -1, NoResponse)

GetEnd(s) ==
    /\ Suspended(s, "get")
    /\ LET product == FindById(products, ParseInt(inflight[s][1].req.id)[1]) IN
       IF product = <<>>
       THEN Resume(s, ErrorResponse(404))
       ELSE Resume(s, Response(200, "absent", product, NoMeta))
    /\ UNCHANGED <<products, nextId, assigned, deletedOk>>

\* ------------------------------------------ utils/queryHelpers.js
DefaultPage == 1
DefaultPageSize == 10
MaxItemsPerPage == 100

Min(a, b) == IF a < b THEN a ELSE b
Max(a, b) == IF a > b THEN a ELSE b

\* ceil(a / b) for a >= 0, b >= 1
CeilDiv(a, b) == (a + b - 1) \div b

\* parsePagination: page defaults to 1 and is floored to 1, limit defaults to
\* 10 and is clamped to the maximum; skip = (page - 1) * limit
ParsePagination(query) ==
    LET p == IF query.page = <<>> THEN <<>> ELSE ParseInt(query.page[1])
        l == IF query.limit = <<>> THEN <<>> ELSE ParseInt(query.limit[1])
        page == IF p = <<>> THEN DefaultPage ELSE Max(1, p[1])
        limit == IF l = <<>> THEN DefaultPageSize ELSE Min(l[1], MaxItemsPerPage)
    IN  [page |-> page, limit |-> limit, skip |-> (page - 1) * limit]

\* parseSort: <<>> without a sort parameter; a leading "-" selects descending
\* order on the rest of the string; the field name is not checked
ParseSort(query) ==
    IF query.sort = <<>> \/ query.sort[1] = <<>> THEN <<>>
    ELSE IF Head(query.sort[1]) = "-"
    THEN <<[field |-> Tail(query.sort[1]), order |-> "desc"]>>
    ELSE <<[field |-> query.sort[1], order |-> "asc"]>>

\* createPaginationMeta
CreatePaginationMeta(totalCount, page, limit) ==
    LET totalPages == CeilDiv(totalCount, limit) IN
    [currentPage |-> page, totalPages |-> totalPages, totalItems |-> totalCount,
     itemsPerPage |-> limit,
     hasNextPage |-> page < totalPages, hasPrevPage |-> page > 1,
     nextPage |-> IF page < totalPages THEN <<page + 1>> ELSE <<>>,
     prevPage |-> IF page > 1 THEN <<page - 1>> ELSE <<>>]

\* ------------------------------------------ utils/productHelpers.js
\* String.prototype.includes
Includes(hay, needle) ==
    \E i \in 0..(Len(hay) - Len(needle)) : SubSeq(hay, i + 1, i + Len(needle)) = needle

\* parseFloat of a query string, in cents: digits, then optionally "." and
\* digits of which two count; <<>> stands for NaN
ParseFloatCents(str) ==
    LET s == TrimStart(str)
        whole == DigitsPrefix(s)
        after == SubSeq(s, Len(whole) + 1, Len(s))
        frac == IF after # <<>> /\ Head(after) = "." THEN DigitsPrefix(Tail(after)) ELSE <<>>
        f1 == IF Len(frac) >= 1 THEN DigitValue(frac[1]) ELSE 0
        f2 == IF Len(frac) >= 2 THEN DigitValue(frac[2]) ELSE 0
    IN  IF whole = <<>> THEN <<>> ELSE <<100 * DigitsToNat(whole) + 10 * f1 + f2>>

\* filterByCategory: case-insensitive exact match, no-op without a category
CategoryMatches(p, category) ==
    category = <<>> \/ category[1] = <<>>
      \/ ToLowerCase(p.category) = ToLowerCase(category[1])
FilterByCategory(list, category) ==
    LET keep(p) == CategoryMatches(p, category) IN SelectSeq(list, keep)

\* filterByStock: no-op when absent, else the string "true" means in stock
StockMatches(p, inStock) ==
    inStock = <<>> \/ p.inStock = (inStock[1] = <<"t", "r", "u", "e">>)
FilterByStock(list, inStock) ==
    LET keep(p) == StockMatches(p, inStock) IN SelectSeq(list, keep)

\* filterByPriceRange: each bound applies when present and parseable
PriceMatches(p, minPrice, maxPrice) ==
    /\ (minPrice # <<>> /\ ParseFloatCents(minPrice[1]) # <<>>)
         => p.price >= ParseFloatCents(minPrice[1])[1]
    /\ (maxPrice # <<>> /\ ParseFloatCents(maxPrice[1]) # <<>>)
         => p.price <= ParseFloatCents(maxPrice[1])[1]
FilterByPriceRange(list, minPrice, maxPrice) ==
    LET keep(p) == PriceMatches(p, minPrice, maxPrice) IN SelectSeq(list, keep)

\* searchByName: case-insensitive substring of the name or the description;
\* a blank query keeps everything
SearchMatches(p, q) ==
    \/ Trim(q) = <<>>
    \/ Includes(ToLowerCase(p.name), ToLowerCase(Trim(q)))
    \/ Includes(ToLowerCase(p.description), ToLowerCase(Trim(q)))
SearchByName(list, q) ==
    LET keep(p) == SearchMatches(p, q) IN SelectSeq(list, keep)

\* character order used to compare strings: the code unit order of the
\* characters of the product fields, the 26 letters of ASCII among them
CharOrder == <<" ", "-", ".", "0", "1", "2", "3", "4", "5", "6", "7", "8", "9">>
                \o SubSeq(UpperChars, 1, 26) \o SubSeq(LowerChars, 1, 26)
CharCode(c) == CHOOSE i \in 1..Len(CharOrder) : CharOrder[i] = c

RECURSIVE StringLess(_, _)
StringLess(a, b) ==
    IF b = <<>> THEN FALSE
    ELSE IF a = <<>> THEN TRUE
    ELSE IF Head(a) = Head(b) THEN StringLess(Tail(a), Tail(b))
    ELSE CharCode(Head(a)) < CharCode(Head(b))

\* a[field] < b[field]; never true for a field no product has
FieldLess(a, b, field) ==
    CASE field = <<"i", "d">> -> a.id < b.id
      [] field = <<"p", "r", "i", "c", "e">> -> a.price < b.price
      [] field = <<"n", "a", "m", "e">> -> StringLess(a.name, b.name)
      [] field = <<"c", "a", "t", "e", "g", "o", "r", "y">> -> StringLess(a.category, b.category)
      [] field = <<"d", "e", "s", "c", "r", "i", "p", "t", "i", "o", "n">>
           -> StringLess(a.description, b.description)
      [] field = <<"i", "n", "S", "t", "o", "c", "k">> -> (~a.inStock) /\ b.inStock
      [] OTHER -> FALSE

\* a goes before b in the requested order
SortsBefore(a, b, field, order) ==
    IF order = "desc" THEN FieldLess(b, a, field) ELSE FieldLess(a, b, field)

\* x inserted into a sorted list behind everything that does not go after it
RECURSIVE InsertSorted(_, _, _, _)
InsertSorted(sorted, x, field, order) ==
    IF sorted = <<>> THEN <<x>>
    ELSE IF SortsBefore(x, Head(sorted), field, order) THEN <<x>> \o sorted
    ELSE <<Head(sorted)>> \o InsertSorted(Tail(sorted), x, field, order)

RECURSIVE SortInto(_, _, _, _)
SortInto(sorted, rest, field, order) ==
    IF rest = <<>> THEN sorted
    ELSE SortInto(InsertSorted(sorted, Head(rest), field, order), Tail(rest), field, order)

\* sortProducts: a sorted copy; equal keys keep their order (stable)
SortProducts(list, field, order) == SortInto(<<>>, list, field, order)

\* Array.prototype.slice(start, end) with its treatment of negative and
\* out-of-range indices
Slice(list, start, end) ==
    LET n == Len(list)
        from == IF start < 0 THEN Max(n + start, 0) ELSE Min(start, n)
        to == IF end < 0 THEN Max(n + end, 0) ELSE Min(end, n)
    IN  SubSeq(list, from + 1, to)

\* paginateProducts
PaginateProducts(list, skip, limit) == Slice(list, skip, skip + limit)

RECURSIVE SumPrices(_)
SumPrices(list) == IF list = <<>> THEN 0 ELSE Head(list).price + SumPrices(Tail(list))

\* calculateStatistics, the overall counts and the total value
CalculateStatistics(list) ==
    [totalProducts |-> Len(list),
     totalValue |-> SumPrices(list),
     inStockCount |-> Cardinality({i \in 1..Len(list) : list[i].inStock}),
     outOfStockCount |-> Cardinality({i \in 1..Len(list) : ~list[i].inStock})]

\* ------------------------------------------------ GET /api/products
\* `if (q)`, `if (category)`: a present, non-empty string
Truthy(param) == param # <<>> /\ param[1] # <<>>

\* lines 117-146: search, filters, sort, count, paginate, metadata
ListResponseCountAfterPage(list, query) ==
    LET searched == IF Truthy(query.q) THEN SearchByName(list, query.q[1]) ELSE list
        byCategory == FilterByCategory(searched, query.category)
        byStock == FilterByStock(byCategory, query.inStock)
        byPrice == FilterByPriceRange(byStock, query.minPrice, query.maxPrice)
        sortParams == ParseSort(query)
        filteredProducts ==
            IF sortParams # <<>>
            THEN SortProducts(byPrice, sortParams[1].field, sortParams[1].order)
            ELSE byPrice
        pg == ParsePagination(query)
        paginatedProducts == PaginateProducts(filteredProducts, pg.skip, pg.limit)
        totalCount == Len(paginatedProducts)
    IN  Response(200, "true", paginatedProducts,
                 CreatePaginationMeta(totalCount, pg.page, pg.limit))

ListResponseUnpaged(list, query) ==
    LET searched == IF Truthy(query.q) THEN SearchByName(list, query.q[1]) ELSE list
        byCategory == FilterByCategory(searched, query.category)
        byStock == FilterByStock(byCategory, query.inStock)
        byPrice == FilterByPriceRange(byStock, query.minPrice, query.maxPrice)
        sortParams == ParseSort(query)
        filteredProducts ==
            IF sortParams # <<>>
            THEN SortProducts(byPrice, sortParams[1].field, sortParams[1].order)
            ELSE byPrice
        totalCount == Len(filteredProducts)
        pg == ParsePagination(query)
    IN  Response(200, "true", filteredProducts,
                 CreatePaginationMeta(totalCount, pg.page, pg.limit))

ListResponse(list, query) ==
    LET searched == IF Truthy(query.q) THEN SearchByName(list, query.q[1]) ELSE list
        byCategory == FilterByCategory(searched, query.category)
        byStock == FilterByStock(byCategory, query.inStock)
        byPrice == FilterByPriceRange(byStock, query.minPrice, query.maxPrice)
        sortParams == ParseSort(query)
        filteredProducts ==
            IF sortParams # <<>>
            THEN SortProducts(byPrice, sortParams[1].field, sortParams[1].order)
            ELSE byPrice
        totalCount == Len(filteredProducts)
        pg == ParsePagination(query)
        paginatedProducts == PaginateProducts(filteredProducts, pg.skip, pg.limit)
    IN  Response(200, "true", paginatedProducts,
                 CreatePaginationMeta(totalCount, pg.page, pg.limit))

\* the request reaches the handler's await; the handler sorts its own copy
\* of the store ([...products]), never the store
ListBeginSortInPlace(key, query) ==
    LET req == Request("list", key, <<>>, NoBody, query)
        sortParams == ParseSort(query)
    IN
    /\ IF RunChain(Chain("list"), req) # 0
       THEN Answer(req, ErrorResponse(RunChain(Chain("list"), req)))
       ELSE /\ \E s \in Slots : inflight[s] = <<>>
            /\ inflight' = [inflight EXCEPT ![FreeSlot] =
                   <<[req |-> req, productIndex |-> -1,
                      resp |-> ListResponse(products, query), late |-> IsLate(req)]>>]
            /\ nreq' = nreq + 1
            /\ products' = IF sortParams # <<>>
                           THEN SortProducts(products, sortParams[1].field,
                                             sortParams[1].order)
                           ELSE products
            /\ UNCHANGED <<nextId, last, assigned, deletedOk>>

ListBegin(key, query) ==
    LET req == Request("list", key, <<>>, NoBody, query) IN
    /\ IF RunChain(Chain("list"), req) # 0
       THEN Answer(req, ErrorResponse(RunChain(Chain("list"), req)))
       ELSE Suspend(req, -1, ListResponse(products, query))

ListEnd(s) ==
    /\ Suspended(s, "list")
    /\ Resume(s, inflight[s][1].resp)
    /\ UNCHANGED <<products, nextId, assigned, deletedOk>>

\* ------------------------------------------------ GET /api/products/search
\* lines 174-190: search, optional filters, count, paginate, metadata
SearchResponseMetaSwapped(list, query) ==
    LET searched == SearchByName(list, query.q[1])
        byCategory == IF Truthy(query.category)
                      THEN FilterByCategory(searched, query.category) ELSE searched
        results == IF query.inStock # <<>>
                   THEN FilterByStock(byCategory, query.inStock) ELSE byCategory
        pg == ParsePagination(query)
        totalCount == Len(results)
        paginatedResults == PaginateProducts(results, pg.skip, pg.limit)
    IN  Response(200, "true", paginatedResults,
                 CreatePaginationMeta(totalCount, pg.limit, pg.page))

SearchResponse(list, query) ==
    LET searched == SearchByName(list, query.q[1])
        byCategory == IF Truthy(query.category)
                      THEN FilterByCategory(searched, query.category) ELSE searched
        results == IF query.inStock # <<>>
                   THEN FilterByStock(byCategory, query.inStock) ELSE byCategory
        pg == ParsePagination(query)
        totalCount == Len(results)
        paginatedResults == PaginateProducts(results, pg.skip, pg.limit)
    IN  Response(200, "true", paginatedResults,
                 CreatePaginationMeta(totalCount, pg.page, pg.limit))

SearchBegin(key, query) ==
    LET req == Request("search", key, <<>>, NoBody, query) IN
    /\ IF RunChain(Chain("search"), req) # 0
       THEN Answer(req, ErrorResponse(RunChain(Chain("search"), req)))
       ELSE IF ~Truthy(query.q) \/ Trim(query.q[1]) = <<>>
       THEN Answer(req, ErrorResponse(400))
       ELSE Suspend(req, -1, SearchResponse(products, query))

SearchEnd(s) ==
    /\ Suspended(s, "search")
    /\ Resume(s, inflight[s][1].resp)
    /\ UNCHANGED <<products, nextId, assigned, deletedOk>>

\* ------------------------------------------------ GET /api/products/stats
StatsResponse(list, query) ==
    LET productsToAnalyze ==
            IF Truthy(query.category) THEN FilterByCategory(list, query.category) ELSE list
    IN  [Response(200, "true", <<>>, NoMeta)
            EXCEPT !.statistics = CalculateStatistics(productsToAnalyze)]

StatsBegin(key, query) ==
    LET req == Request("stats", key, <<>>, NoBody, query) IN
    /\ IF RunChain(Chain("stats"), req) # 0
       THEN Answer(req, ErrorResponse(RunChain(Chain("stats"), req)))
       ELSE Suspend(req, -1, StatsResponse(products, query))

StatsEnd(s) ==
    /\ Suspended(s, "stats")
    /\ Resume(s, inflight[s][1].resp)
    /\ UNCHANGED <<products, nextId, assigned, deletedOk>>

\* ------------------------------------------------ routes without a key
\* GET /: the text "Hello World"
GetRoot ==
    /\ Answer(Request("root", <<>>, <<>>, NoBody, NoQuery),
              Response(200, "absent", <<>>, NoMeta))

\* GET /health: message, timestamp, environment
GetHealth ==
    /\ Answer(Request("health", <<>>, <<>>, NoBody, NoQuery),
              Response(200, "absent", <<>>, NoMeta))

\* GET /api: the endpoint catalogue
GetApi ==
    /\ Answer(Request("api", <<>>, <<>>, NoBody, NoQuery),
              Response(200, "true", <<>>, NoMeta))

\* GET /test-error: the handler throws an Error without a status code
GetTestError ==
    /\ Answer(Request("test-error", <<>>, <<>>, NoBody, NoQuery), ErrorResponse(500))

\* any other route: the 404 handler throws NotFoundError
UnmatchedRoute ==
    /\ Answer(Request("unmatched", <<>>, <<>>, NoBody, NoQuery), ErrorResponse(404))

\* a request on any route whose body express.json() refuses: the chain ends
\* at the parser, in front of the key check and of the route, and the error
\* handler answers with one of the statuses it may give the parser's error
BodyRejected(kind, key, id, body, query) ==
    LET req == Request(kind, key, id, body, query) IN
    /\ ExpressJson(req) # 0
    /\ \E status \in ForeignErrorStatuses(RunChain(Chain(kind), req)) :
          Answer(req, ErrorResponse(status))

\* ---------------------------------------------------------------- inputs
\* x-api-key headers: none, a key of the allow-list, another string
ValidKey == <<"your-secret-api-key-123">>
Keys == {<<>>, ValidKey, <<"wrong-key">>}

\* :id parameters: two seed products, the id of the next product, no number
IdParams == {<<"1">>, <<"2">>, <<"4">>, <<"a", "b", "c">>}

\* "Desk", " desk ", "laptop pro", a blank name
NameDesk == <<"D", "e", "s", "k">>
NameDeskPadded == <<" ", "d", "e", "s", "k", " ">>
NameLaptopLower == <<"l", "a", "p", "t", "o", "p", " ", "p", "r", "o">>
NameBlank == <<" ", " ">>

DescriptionDesk == <<" ", "O", "a", "k", " ", "d", "e", "s", "k", " ">>
CategoryFurniture == <<"F", "u", "r", "n", "i", "t", "u", "r", "e">>

BodyDesk ==
    Body(<<NameDesk>>, <<DescriptionDesk>>, <<19999>>, <<CategoryFurniture>>, <<TRUE>>)
BodyDeskPadded ==
    Body(<<NameDeskPadded>>, <<DescriptionDesk>>, <<4500>>, <<CategoryFurniture>>, <<FALSE>>)
BodyBlankName ==
    Body(<<NameBlank>>, <<DescriptionDesk>>, <<19999>>, <<CategoryFurniture>>, <<TRUE>>)
BodyPrice == Body(<<>>, <<>>, <<999>>, <<>>, <<FALSE>>)
BodyLaptopLower == Body(<<NameLaptopLower>>, <<>>, <<>>, <<>>, <<>>)

\* JSON bodies: two complete ones, one with a blank name, the empty one and
\* two partial ones
Bodies == {BodyDesk, BodyDeskPadded, BodyBlankName, NoBody, BodyPrice, BodyLaptopLower}

\* query strings
Queries ==
    { NoQuery,
      \* ?category=Electronics&inStock=true&page=1&limit=2
      Query(<<<<"1">>>>, <<<<"2">>>>, <<<<"E", "l", "e", "c", "t", "r", "o", "n", "i", "c", "s">>>>, <<<<"t", "r", "u", "e">>>>, <<>>, <<>>, <<>>, <<>>),
      \* ?page=2&limit=2
      Query(<<<<"2">>>>, <<<<"2">>>>, <<>>, <<>>, <<>>, <<>>, <<>>, <<>>),
      \* ?minPrice=50&maxPrice=1500&sort=-price&limit=1
      Query(<<>>, <<<<"1">>>>, <<>>, <<>>, <<<<"5", "0">>>>, <<<<"1", "5", "0", "0">>>>, <<<<"-", "p", "r", "i", "c", "e">>>>, <<>>),
      \* ?q=o&sort=name&limit=1
      Query(<<>>, <<<<"1">>>>, <<>>, <<>>, <<>>, <<>>, <<<<"n", "a", "m", "e">>>>, <<<<"o">>>>) }

\* the routes, and the :id a request on a route carries
Routes == {"list", "search", "stats", "get", "post", "put", "delete",
           "root", "health", "api", "test-error", "unmatched"}
RouteIds(kind) == IF kind \in {"get", "put", "delete"} THEN {<<"1">>} ELSE {<<>>}

\* the refused bodies sent on a route: each of them on the two routes that
\* read a body, the unparsable one on every other route
RouteRefusals(kind) ==
    IF kind \in {"post", "put"} THEN RefusedBodies ELSE {MalformedBody}

\* ------------------------------------------------------- the state machine
NoLast == [req |-> NoRequest, resp |-> NoResponse, late |-> FALSE]

Init ==
    /\ products = SeedProducts
    /\ nextId = SeedNextId
    /\ inflight = [s \in Slots |-> <<>>]
    /\ last = NoLast
    /\ nreq = 0
    /\ assigned = {SeedProducts[i].id : i \in 1..Len(SeedProducts)}
    /\ deletedOk = {}

\* every route, with and without a valid key
Next ==
    \/ \E key \in Keys, query \in Queries : nreq < MaxRequests /\ ListBegin(key, query)
    \/ \E s \in Slots : ListEnd(s)
    \/ \E key \in Keys, query \in Queries : nreq < MaxRequests /\ SearchBegin(key, query)
    \/ \E s \in Slots : SearchEnd(s)
    \/ \E key \in Keys, query \in Queries : nreq < MaxRequests /\ StatsBegin(key, query)
    \/ \E s \in Slots : StatsEnd(s)
    \/ \E key \in Keys, id \in IdParams : nreq < MaxRequests /\ GetBegin(key, id)
    \/ \E s \in Slots : GetEnd(s)
    \/ \E key \in Keys, body \in Bodies : nreq < MaxRequests /\ PostBegin(key, body)
    \/ \E s \in Slots : PostEnd(s)
    \/ \E key \in Keys, id \in IdParams, body \in Bodies :
          nreq < MaxRequests /\ PutBegin(key, id, body)
    \/ \E s \in Slots : PutEnd(s)
    \/ \E key \in Keys, id \in IdParams : nreq < MaxRequests /\ DeleteBegin(key, id)
    \/ \E s \in Slots : DeleteEnd(s)
    \/ nreq < MaxRequests /\ GetRoot
    \/ nreq < MaxRequests /\ GetHealth
    \/ nreq < MaxRequests /\ GetApi
    \/ nreq < MaxRequests /\ GetTestError
    \/ nreq < MaxRequests /\ UnmatchedRoute
    \/ \E kind \in Routes, key \in Keys :
          \E id \in RouteIds(kind) :
              \E body \in RouteRefusals(kind) :
                  nreq < MaxRequests /\ BodyRejected(kind, key, id, body, NoQuery)

Spec == Init /\ [][Next]_vars

\* the routes that read or write one product, called with a valid key
NextStore ==
    \/ \E id \in IdParams : nreq < MaxStoreRequests /\ GetBegin(ValidKey, id)
    \/ \E s \in Slots : GetEnd(s)
    \/ \E body \in Bodies : nreq < MaxStoreRequests /\ PostBegin(ValidKey, body)
    \/ \E s \in Slots : PostEnd(s)
    \/ \E id \in IdParams, body \in Bodies :
          nreq < MaxStoreRequests /\ PutBegin(ValidKey, id, body)
    \/ \E s \in Slots : PutEnd(s)
    \/ \E id \in IdParams : nreq < MaxStoreRequests /\ DeleteBegin(ValidKey, id)
    \/ \E s \in Slots : DeleteEnd(s)

SpecStore == Init /\ [][NextStore]_vars

\* ------------------------------------------- the paging helpers on their own
MaxSkip == 4
MaxLimit == 3
MaxTotal == 4
MaxPage == 3

\* the seed products and a created one; every prefix is a store the server
\* reaches by creating and deleting
CreatedProducts == <<NewProduct(SeedNextId, BodyDesk)>>
PagingProducts == SeedProducts \o CreatedProducts

\* ?page=..&limit=.. (each absent, or a number), with or without ?q=o
PageParams == {<<>>, <<<<"0">>>>, <<<<"1">>>>, <<<<"2">>>>, <<<<"3">>>>}
LimitParams == {<<>>, <<<<"1">>>>, <<<<"2">>>>, <<<<"3">>>>}
PagingQuery(page, limit, q) == Query(page, limit, <<>>, <<>>, <<>>, <<>>, <<>>, q)
SearchTermO == <<<<"o">>>>

InitPaging ==
    /\ \E n \in 0..Len(PagingProducts) :
          /\ products = SubSeq(PagingProducts, 1, n)
          /\ nextId = IF n > Len(SeedProducts) THEN n + 1 ELSE SeedNextId
    /\ inflight = [s \in Slots |-> <<>>]
    /\ last = NoLast
    /\ nreq = 0
    /\ assigned = {PagingProducts[i].id : i \in 1..Len(PagingProducts)} \cap 1..(nextId - 1)
    /\ deletedOk = assigned \ {products[i].id : i \in 1..Len(products)}

\* a call of a helper with its arguments, recorded with its result
HelperCall(name, args, data, pagination) ==
    [req |-> Request(name, <<>>, <<>>, NoBody, NoQuery),
     resp |-> Response(0, "absent", data, pagination),
     late |-> FALSE,
     args |-> args]

\* paginateProducts(products, skip, limit)
PaginateCall(skip, limit) ==
    /\ last' = HelperCall("paginateProducts", <<skip, limit>>,
                          PaginateProducts(products, skip, limit), NoMeta)
    /\ UNCHANGED <<products, nextId, inflight, nreq, assigned, deletedOk>>

\* createPaginationMeta(total, page, limit)
MetaCall(total, page, limit) ==
    /\ last' = HelperCall("createPaginationMeta", <<total, page, limit>>, <<>>,
                          CreatePaginationMeta(total, page, limit))
    /\ UNCHANGED <<products, nextId, inflight, nreq, assigned, deletedOk>>

\* the helpers called directly, and one list or search request with paging
\* parameters
NextPaging ==
    \/ \E skip \in 0..MaxSkip, limit \in 1..MaxLimit : PaginateCall(skip, limit)
    \/ \E total \in 0..MaxTotal, page \in 1..MaxPage, limit \in 1..MaxLimit :
          MetaCall(total, page, limit)
    \/ \E page \in PageParams, limit \in LimitParams :
          nreq = 0 /\ ListBegin(ValidKey, PagingQuery(page, limit, <<>>))
    \/ \E s \in Slots : ListEnd(s)
    \/ \E page \in PageParams, limit \in LimitParams :
          nreq = 0
            /\ SearchBegin(ValidKey, PagingQuery(page, limit, SearchTermO))
    \/ \E s \in Slots : SearchEnd(s)

SpecPaging == InitPaging /\ [][NextPaging]_vars

\* ------------------------------------- writes to the store next to lists
\* ?sort=-price
QuerySortPriceDesc ==
    Query(<<>>, <<>>, <<>>, <<>>, <<>>, <<>>, <<<<"-", "p", "r", "i", "c", "e">>>>, <<>>)
OrderQueries == {NoQuery, QuerySortPriceDesc}
OrderIdParams == {<<"1">>, <<"0", "x", "2">>}
OrderBodies == {BodyDesk, BodyPrice}

\* creates, updates and deletes with a valid key, next to list requests with
\* and without a sort parameter
NextOrder ==
    \/ \E query \in OrderQueries : nreq < MaxStoreRequests /\ ListBegin(ValidKey, query)
    \/ \E s \in Slots : ListEnd(s)
    \/ \E body \in OrderBodies : nreq < MaxStoreRequests /\ PostBegin(ValidKey, body)
    \/ \E s \in Slots : PostEnd(s)
    \/ \E id \in OrderIdParams, body \in OrderBodies :
          nreq < MaxStoreRequests /\ PutBegin(ValidKey, id, body)
    \/ \E s \in Slots : PutEnd(s)
    \/ \E id \in OrderIdParams : nreq < MaxStoreRequests /\ DeleteBegin(ValidKey, id)
    \/ \E s \in Slots : DeleteEnd(s)

SpecOrder == Init /\ [][NextOrder]_vars

\* --------------------------------------------- every timer fires in the end
\* the handler suspended in slot s resumes after its await
Continue(s) ==
    \/ ListEnd(s)
    \/ SearchEnd(s)
    \/ StatsEnd(s)
    \/ GetEnd(s)
    \/ PostEnd(s)
    \/ PutEnd(s)
    \/ DeleteEnd(s)

\* :id parameters: the first seed product in hexadecimal, an unknown id, no
\* number; the last seed product; the first one after a tab
LiveGetIds == {<<"0", "x", "1">>, <<"4">>, <<"0", "x">>}
LivePutIds == {<<"3">>}
LiveDeleteIds == {<<"\t", "1">>}
LivePostBodies == {BodyDesk, BodyBlankName}
LivePutBodies == {BodyPrice, NoBody}
\* a search without q, and ?q=o
LiveSearchQueries == {NoQuery, PagingQuery(<<>>, <<>>, SearchTermO)}

\* every route, with inputs for every status it can answer
NextLive ==
    \/ nreq < MaxRequests /\ ListBegin(ValidKey, NoQuery)
    \/ \E s \in Slots : ListEnd(s)
    \/ \E query \in LiveSearchQueries : nreq < MaxRequests /\ SearchBegin(ValidKey, query)
    \/ \E s \in Slots : SearchEnd(s)
    \/ nreq < MaxRequests /\ StatsBegin(ValidKey, NoQuery)
    \/ \E s \in Slots : StatsEnd(s)
    \/ \E key \in Keys, id \in LiveGetIds : nreq < MaxRequests /\ GetBegin(key, id)
    \/ \E s \in Slots : GetEnd(s)
    \/ \E body \in LivePostBodies : nreq < MaxRequests /\ PostBegin(ValidKey, body)
    \/ \E s \in Slots : PostEnd(s)
    \/ \E id \in LivePutIds, body \in LivePutBodies :
          nreq < MaxRequests /\ PutBegin(ValidKey, id, body)
    \/ \E s \in Slots : PutEnd(s)
    \/ \E id \in LiveDeleteIds : nreq < MaxRequests /\ DeleteBegin(ValidKey, id)
    \/ \E s \in Slots : DeleteEnd(s)
    \/ nreq < MaxRequests /\ GetRoot
    \/ nreq < MaxRequests /\ GetHealth
    \/ nreq < MaxRequests /\ GetApi
    \/ nreq < MaxRequests /\ GetTestError
    \/ nreq < MaxRequests /\ UnmatchedRoute
    \/ \E kind \in Routes, key \in Keys :
          \E id \in RouteIds(kind) :
              \E body \in RouteRefusals(kind) :
                  nreq < MaxRequests /\ BodyRejected(kind, key, id, body, NoQuery)

\* the application with the event loop's guarantee that the 10 ms timer of a
\* suspended handler fires and its continuation runs
SpecLive == Init /\ [][NextLive]_vars /\ \A s \in Slots : WF_vars(Continue(s))

\* ------------------------------------------------------------ properties
\* a name as the uniqueness rule compares it: trimmed and case-folded
NormalName(name) == ToLowerCase(Trim(name))

\* the handler in slot s answers in this step
Ends(s, kind) == Suspended(s, kind) /\ inflight'[s] = <<>>

\* a request of this kind reaches its handler's await in this step, in slot s
Starts(s, kind) ==
    inflight[s] = <<>> /\ inflight'[s] # <<>> /\ inflight'[s][1].req.kind = kind

\* some product other than the one with this id has this name
OtherHasName(list, id, name) ==
    \E i \in 1..Len(list) :
        list[i].id # id /\ NormalName(list[i].name) = NormalName(name)

\* some product has this name
SomeHasName(list, name) ==
    \E i \in 1..Len(list) : NormalName(list[i].name) = NormalName(name)

\* C1: in every reachable state no two products of the store have names that
\* are equal after trimming and case-folding.
C1_NoDuplicateNames ==
    \A i, j \in 1..Len(products) :
        i # j => NormalName(products[i].name) # NormalName(products[j].name)

\* C2: a valid create whose name equals, after trimming and case-folding, the
\* name of a product in the store is answered 409: it neither passes the
\* duplicate check nor appends a record while such a product is in the store.
C2_CreateOfTakenNameConflicts ==
    [][\A s \in Slots :
          /\ Starts(s, "post") =>
                ~SomeHasName(products, inflight'[s][1].req.body.name[1])
          /\ Ends(s, "post") =>
                ~SomeHasName(products, inflight[s][1].req.body.name[1])]_vars

\* C3: the id of the record a successful create returns is strictly greater
\* than every id assigned before it, the seed ids and the ids of deleted
\* products included.
C3_CreatedIdIsFresh ==
    [][\A s \in Slots :
          Ends(s, "post") =>
              /\ last'.resp.status = 201
              /\ \A i \in assigned : last'.resp.data[1].id > i
              /\ products'[Len(products')] = last'.resp.data[1]]_vars

\* C3 witness: a create answered after an earlier create and a delete
C3_Witness ==
    /\ last.req.kind = "post"
    /\ last.resp.status = 201
    /\ last.resp.data[1].id = SeedNextId + 1
    /\ deletedOk # {}

IdsOf(list) == [i \in 1..Len(list) |-> list[i].id]

\* the list without its element at position i
WithoutAt(list, i) == SubSeq(list, 1, i - 1) \o SubSeq(list, i + 1, Len(list))

\* C4: no two products of the store have the same id, and a step changes the
\* ids of the store only by appending the id of a new product or by removing
\* the id of a deleted one: a product that stays keeps its id, and an update
\* leaves every id as it was.
C4_IdsUniqueAndStable ==
    /\ [](\A i, j \in 1..Len(products) : i # j => products[i].id # products[j].id)
    /\ [][/\ \/ IdsOf(products') = IdsOf(products)
             \/ /\ Len(products') = Len(products) + 1
                /\ SubSeq(IdsOf(products'), 1, Len(products)) = IdsOf(products)
             \/ \E i \in 1..Len(products) :
                    IdsOf(products') = WithoutAt(IdsOf(products), i)
          /\ \A s \in Slots :
                Ends(s, "put") => IdsOf(products') = IdsOf(products)]_vars

\* C4 witness: an update has rewritten every field of a seed product while a
\* created product is in the store
C4_Witness ==
    /\ last.req.kind = "put"
    /\ last.req.body = BodyDeskPadded
    /\ last.resp.status = 200
    /\ last.resp.data[1].id = 1
    /\ Len(products) = Len(SeedProducts) + 1

\* C5: a successful DELETE of :id removes exactly the product with that id
\* and returns it; the other products stay, unchanged and in order.
C5_DeleteRemovesItsTarget ==
    [][\A s \in Slots :
          (Ends(s, "delete") /\ last'.resp.status = 200) =>
              LET id == ParseInt(inflight[s][1].req.id)[1]
                  keep(p) == p.id # id
              IN  /\ FindById(products, id) # <<>>
                  /\ last'.resp.data = FindById(products, id)
                  /\ products' = SelectSeq(products, keep)]_vars

\* C6: once a DELETE of an id has been answered 200, every GET, PUT or DELETE
\* on that id that arrives later and passes the middleware is answered 404.
C6_DeletedStaysNotFound ==
    ( /\ last.late
      /\ last.req.kind \in {"get", "put", "delete"}
      /\ RunChain(Chain(last.req.kind), last.req) = 0 )
    => last.resp.status = 404

\* C7: a successful PUT of :id changes only the fields present in its body
\* and only on the product with that id; the rest of that product, every
\* other product, the order of the store and nextId stay as they were.
C7_UpdateWritesOnlyItsTarget ==
    [][\A s \in Slots :
          (Ends(s, "put") /\ last'.resp.status = 200) =>
              LET id == ParseInt(inflight[s][1].req.id)[1]
                  b == inflight[s][1].req.body
              IN  /\ nextId' = nextId
                  /\ Len(products') = Len(products)
                  /\ \A i \in 1..Len(products) :
                        /\ products'[i].id = products[i].id
                        /\ products[i].id # id => products'[i] = products[i]
                        /\ b.name = <<>> => products'[i].name = products[i].name
                        /\ b.description = <<>>
                              => products'[i].description = products[i].description
                        /\ b.price = <<>> => products'[i].price = products[i].price
                        /\ b.category = <<>> => products'[i].category = products[i].category
                        /\ b.inStock = <<>> => products'[i].inStock = products[i].inStock]_vars

\* C8: the duplicate check of an update excludes the updated record and
\* nothing else: a PUT that names its own product's current name passes the
\* check, and a PUT that names the name of another product of the store
\* (trimmed, case-folded) is answered 409, so it neither passes the check
\* nor writes that name.
C8_UpdateDuplicateCheck ==
    [][/\ \A s \in Slots :
            /\ (Starts(s, "put") /\ inflight'[s][1].req.body.name # <<>>) =>
                  ~OtherHasName(products, ParseInt(inflight'[s][1].req.id)[1],
                                inflight'[s][1].req.body.name[1])
            /\ (Ends(s, "put") /\ last'.resp.status = 200
                  /\ inflight[s][1].req.body.name # <<>>) =>
                  ~OtherHasName(products, ParseInt(inflight[s][1].req.id)[1],
                                inflight[s][1].req.body.name[1])
       /\ ( /\ nreq' = nreq + 1
            /\ last' # last
            /\ last'.req.kind = "put"
            /\ last'.resp.status = 409 ) =>
              OtherHasName(products, ParseInt(last'.req.id)[1], last'.req.body.name[1])]_vars

\* the routes behind authenticateApiKey
ProductRoutes == {"list", "search", "stats", "get", "post", "put", "delete"}

KeyMissing(req) == req.key = <<>>
KeyUnknown(req) == req.key # <<>> /\ req.key[1] \notin ValidApiKeys

\* C9: on every /api/products route a request without x-api-key is answered
\* 401 and one with a key outside the allow-list 403, whatever its body, id
\* or query; its handler is never entered, and the step that answers it
\* leaves the product list, nextId and the suspended handlers as they were.
C9_KeyCheckedFirst ==
    /\ [](/\ (last.req.kind \in ProductRoutes /\ KeyMissing(last.req))
                => last.resp.status = 401
          /\ (last.req.kind \in ProductRoutes /\ KeyUnknown(last.req))
                => last.resp.status = 403
          /\ \A s \in Slots :
                inflight[s] # <<>> =>
                    ~KeyMissing(inflight[s][1].req) /\ ~KeyUnknown(inflight[s][1].req))
    /\ [][( /\ last' # last
            /\ last'.req.kind \in ProductRoutes
            /\ (KeyMissing(last'.req) \/ KeyUnknown(last'.req)) )
          => UNCHANGED <<products, nextId, inflight>>]_vars

\* the product passes the search and every filter of the query
MatchesAll(p, query) ==
    /\ Truthy(query.q) => SearchMatches(p, query.q[1])
    /\ CategoryMatches(p, query.category)
    /\ StockMatches(p, query.inStock)
    /\ PriceMatches(p, query.minPrice, query.maxPrice)

\* C10: for every list request pagination.totalItems is the number of
\* products of the store that match the search and all filters, counted
\* before the page is cut, and data is the page [skip, skip + limit) of the
\* matched products in the requested order.
C10_TotalCountsMatchesBeforePaging ==
    [][\A s \in Slots :
          Starts(s, "list") =>
              LET query == inflight'[s][1].req.query
                  resp == inflight'[s][1].resp
                  keep(p) == MatchesAll(p, query)
                  matched == SelectSeq(products, keep)
                  sortParams == ParseSort(query)
                  ordered == IF sortParams = <<>> THEN matched
                             ELSE SortProducts(matched, sortParams[1].field,
                                               sortParams[1].order)
                  pg == ParsePagination(query)
              IN  /\ resp.pagination.totalItems = Len(matched)
                  /\ resp.data = SubSeq(ordered, pg.skip + 1,
                                        Min(pg.skip + pg.limit, Len(ordered)))
                  /\ Len(resp.data) <= pg.limit]_vars

\* C10 witness: a list request whose total (2) is neither the size of the
\* store (3) nor the size of its page (1)
C10_Witness ==
    \E s \in Slots :
        /\ Suspended(s, "list")
        /\ Len(products) = 3
        /\ inflight[s][1].resp.pagination.totalItems = 2
        /\ Len(inflight[s][1].resp.data) = 1

\* the least n with n * limit >= total: ceil(total / limit)
PagesNeeded(total, limit) ==
    CHOOSE n \in 0..total : n * limit >= total /\ \A m \in 0..(n - 1) : m * limit < total

\* a list or search request with paging parameters has reached its await
PagedRequests == {inflight[s][1] : s \in {t \in Slots : inflight[t] # <<>>}}

\* C11: paginateProducts(list, skip, limit) is the contiguous run of list
\* that starts at position skip and has min(limit, max(0, length - skip))
\* elements, for skip >= 0 and limit >= 1; with skip and limit from
\* parsePagination the page of a list or search response is that run of the
\* matched products, so it has at most limit items and is empty when skip is
\* at or past the end.
C11_PageIsContiguousRun ==
    /\ last.req.kind = "paginateProducts" =>
          LET skip == last.args[1]
              limit == last.args[2]
              page == last.resp.data
          IN  /\ Len(page) = Min(limit, Max(0, Len(products) - skip))
              /\ \A i \in 1..Len(page) : page[i] = products[skip + i]
    /\ \A r \in PagedRequests :
          LET pg == ParsePagination(r.req.query)
              keep(p) == MatchesAll(p, r.req.query)
              matched == SelectSeq(products, keep)
              page == r.resp.data
          IN  /\ pg.skip = (pg.page - 1) * pg.limit
              /\ Len(page) <= pg.limit
              /\ pg.skip >= Len(matched) => page = <<>>
              /\ Len(page) = Min(pg.limit, Max(0, Len(matched) - pg.skip))
              /\ \A i \in 1..Len(page) : page[i] = matched[pg.skip + i]

\* C11 witness: a direct call that cuts the last, shorter page of a store of
\* four, while a search request for page 3 of a store of four, two to a page,
\* holds an empty page
C11_Witness ==
    /\ Len(products) = 4
    /\ last.req.kind = "paginateProducts"
    /\ last.args = <<3, 2>>
    /\ Len(last.resp.data) = 1
    /\ \E s \in Slots :
          /\ Suspended(s, "search")
          /\ ParsePagination(inflight[s][1].req.query).skip = 4
          /\ inflight[s][1].resp.data = <<>>

\* C12: createPaginationMeta(total, page, limit), for total >= 0, page >= 1
\* and limit >= 1, has hasNextPage exactly when page < ceil(total / limit),
\* nextPage = page + 1 then and null otherwise, hasPrevPage exactly when
\* page > 1, prevPage = page - 1 then and null otherwise; total = 0 gives
\* totalPages = 0 and no next page.  The metadata of a list or search
\* response is that of its total, its page and its limit.
C12_MetaOfTotalPageLimit ==
    LET Right(meta, total, page, limit) ==
            /\ meta.totalPages = PagesNeeded(total, limit)
            /\ meta.hasNextPage = (page < PagesNeeded(total, limit))
            /\ meta.nextPage = IF meta.hasNextPage THEN <<page + 1>> ELSE <<>>
            /\ meta.hasPrevPage = (page > 1)
            /\ meta.prevPage = IF meta.hasPrevPage THEN <<page - 1>> ELSE <<>>
            /\ total = 0 => (meta.totalPages = 0 /\ ~meta.hasNextPage /\ meta.nextPage = <<>>)
    IN  /\ last.req.kind = "createPaginationMeta" =>
              Right(last.resp.pagination, last.args[1], last.args[2], last.args[3])
        /\ \A r \in PagedRequests :
              LET pg == ParsePagination(r.req.query)
                  keep(p) == MatchesAll(p, r.req.query)
              IN  Right(r.resp.pagination, Len(SelectSeq(products, keep)), pg.page, pg.limit)

\* C12 witness: a direct call for no items at all, while a search request
\* for page 2, one to a page, of a store of three has both neighbours
C12_Witness ==
    /\ last.req.kind = "createPaginationMeta"
    /\ last.args[1] = 0
    /\ last.resp.pagination.totalPages = 0
    /\ \E s \in Slots :
          /\ Suspended(s, "search")
          /\ inflight[s][1].resp.pagination.currentPage = 2
          /\ inflight[s][1].resp.pagination.totalPages = 3
          /\ inflight[s][1].resp.pagination.nextPage = <<3>>
          /\ inflight[s][1].resp.pagination.prevPage = <<1>>

\* the routes of the API that answer with a JSON body
JsonRoutes == ProductRoutes \cup {"api"}

\* C13: every successful response (200 or 201) of a JSON endpoint (list,
\* search, stats, GET /api, get-by-id, create, update, delete) has the member
\* success: true in its body.
C13_SuccessEnvelope ==
    (last.req.kind \in JsonRoutes /\ last.resp.status \in {200, 201})
        => last.resp.success = "true"

\* the ids of the list are strictly ascending
AscendingIds(list) == \A i, j \in 1..Len(list) : i < j => list[i].id < list[j].id

\* C14: in every reachable state the products of the store are in the order
\* of their creation, strictly ascending by id; a list request, with or
\* without a sort parameter, leaves the store as it is in both of its
\* segments, and a list request without sort or filters gets the store in
\* that order.
C14_StoreKeepsInsertionOrder ==
    /\ [](AscendingIds(products))
    /\ [][\A s \in Slots :
            /\ Starts(s, "list") =>
                  /\ products' = products
                  /\ inflight'[s][1].req.query = NoQuery =>
                        inflight'[s][1].resp.data = products
            /\ Ends(s, "list") => products' = products]_vars

\* C14 witness: a list request sorted by descending price was answered out
\* of id order, and a list request without sort that followed it holds the
\* store of four, a created product included, in insertion order
C14_Witness ==
    /\ last.req.kind = "list"
    /\ last.req.query = QuerySortPriceDesc
    /\ last.resp.status = 200
    /\ IdsOf(last.resp.data) = <<1, 4, 3, 2>>
    /\ IdsOf(products) = <<1, 2, 3, 4>>
    /\ \E s \in Slots :
          /\ Suspended(s, "list")
          /\ inflight[s][1].req.query = NoQuery
          /\ inflight[s][1].resp.data = products

\* the slots that hold a suspended handler
Busy(flight) == {s \in Slots : flight[s] # <<>>}

\* C15: every request gets exactly one response, a success or a failure with
\* one of the statuses 400, 401, 403, 404, 409, 422, 500.  A step that
\* receives a request either answers it or suspends its handler; a suspended
\* handler is eventually resumed; the step that resumes it answers its
\* request and no other, also when its target was removed meanwhile; no
\* other step drops or replaces a suspended request.
C15_EveryRequestAnsweredOnce ==
    /\ \A s \in Slots : (inflight[s] # <<>>) ~> (inflight[s] = <<>>)
    /\ [](last.req.kind # "none" =>
             last.resp.status \in FailureStatuses \cup SuccessStatuses)
    /\ [][/\ nreq' = nreq + 1 =>
                \/ /\ inflight' = inflight
                   /\ last'.req.kind # "none"
                \/ /\ last' = last
                   /\ \E s \in Slots : Busy(inflight') = Busy(inflight) \cup {s}
                                          /\ s \notin Busy(inflight)
          /\ nreq' = nreq =>
                \E s \in Busy(inflight) :
                    /\ Busy(inflight') = Busy(inflight) \ {s}
                    /\ last'.req = inflight[s][1].req
                    /\ last'.resp.status \in FailureStatuses \cup SuccessStatuses
          /\ \A s \in Busy(inflight) \cap Busy(inflight') :
                inflight'[s][1].req = inflight[s][1].req]_vars

\* C15 witness: an update whose target index fell off the end of the store,
\* because a delete ran while it was suspended, was answered 500 and no
\* handler is left suspended
C15_Witness ==
    /\ last.req.kind = "put"
    /\ last.resp.status = 500
    /\ deletedOk # {}
    /\ Busy(inflight) = {}

\* the routes that only read
ReadRoutes == {"list", "search", "stats", "get", "root", "health", "api"}

\* this step answers a request, in the segment that received it or in the
\* one after its await
Answers ==
    \/ (nreq' = nreq + 1 /\ inflight' = inflight)
    \/ \E s \in Busy(inflight) : Busy(inflight') = Busy(inflight) \ {s}

\* C16: a step that answers a failure, and every step of a read request,
\* leaves the product list and nextId as they were; the product list changes
\* only in the step that answers a create with 201 or an update or delete
\* with 200, and nextId changes only in the step that answers a create with
\* 201, by exactly one.
C16_OnlySuccessfulWritesChangeStore ==
    [][/\ (Answers /\ last'.resp.status \in FailureStatuses)
             => UNCHANGED <<products, nextId>>
       /\ \A s \in Slots :
             \A kind \in ReadRoutes :
                 (Starts(s, kind) \/ Ends(s, kind)) => UNCHANGED <<products, nextId>>
       /\ (Answers /\ last'.req.kind \in ReadRoutes) => UNCHANGED <<products, nextId>>
       /\ products' # products =>
             \E s \in Slots :
                 /\ (Ends(s, "post") \/ Ends(s, "put") \/ Ends(s, "delete"))
                 /\ last'.req = inflight[s][1].req
                 /\ last'.resp.status \in SuccessStatuses
       /\ nextId' # nextId =>
             /\ \E s \in Slots : Ends(s, "post") /\ last'.resp.status = 201
             /\ nextId' = nextId + 1
             /\ Len(products') = Len(products) + 1]_vars

\* C16 witness: after one successful create, which advanced nextId by one, a
\* second create of the same name was answered 409 and the store is as the
\* first create left it
C16_Witness ==
    /\ last.req.kind = "post"
    /\ last.resp.status = 409
    /\ nextId = SeedNextId + 1
    /\ Len(products) = Len(SeedProducts) + 1
    /\ Busy(inflight) = {}

====
